---- MODULE Spec2Model ----
(***************************************************************************)
(* Model of scrape_innout_locations.py: the page extractor                 *)
(* (parse_store_page), the id scanner (scrape_by_ids) and the ordering of   *)
(* the emitted records (main).                                             *)
(*                                                                         *)
(* Text is modelled as a sequence of one-character strings, so that the    *)
(* regular-expression searches, str.replace, str.strip, str(i), int(s) and  *)
(* float(s) are computed character by character as Python computes them.   *)
(* An optional value (a re match object or None, a Location or None) is a  *)
(* sequence of length at most one: << >> is None, <<v>> is the value v.     *)
(* A printable ASCII character is written as itself, tab, line feed,       *)
(* carriage return and form feed by their escapes, and every other         *)
(* character by its code point, "U+0663" for ARABIC-INDIC DIGIT THREE.      *)
(*                                                                         *)
(* The Location record of the model carries the fields id, slug and url.   *)
(* The fields derived from the heading, the title and the image (name,     *)
(* city_state, address_line, zip_code, image_url) and the numeric values   *)
(* of latitude and longitude are not represented: the code that computes   *)
(* them (lines 56-75) cannot fail and does not influence whether a record  *)
(* is returned, its id, or anything the scanner does.                      *)
(***************************************************************************)
EXTENDS Integers, Sequences, FiniteSets, TLC

\* ------------------------------------------------------------------------
\* Bounds of the model
\* ------------------------------------------------------------------------
\* longest URL path (after the optional origin) given to parse_store_page
MaxPathLen == 2
\* max_id ranges up to MinIdFloor + MaxExtra
MaxExtra == 4
\* stop_after_consecutive_miss ranges over 0..MaxThreshold
MaxThreshold == 3
\* ids MinIdFloor .. MinIdFloor + SiteSpan (and id 1) may hold a valid page
SiteSpan == 2
\* largest number of entries of a mapping handed to the sort of main
MaxItems == 3

\* ------------------------------------------------------------------------
\* Literals of the source
\* ------------------------------------------------------------------------
BASE == <<"h", "t", "t", "p", "s", ":", "/", "/", "l", "o", "c", "a", "t", "i", "o", "n", "s", ".", "i", "n", "-", "n", "-", "o", "u", "t", ".", "c", "o", "m">>

LatPattern == <<"d", "a", "t", "a", "-", "l", "a", "t", "i", "t", "u", "d", "e", "=", "\"">>

LngPattern == <<"d", "a", "t", "a", "-", "l", "o", "n", "g", "i", "t", "u", "d", "e", "=", "\"">>

H3Open == <<"<", "h", "3", " ", "c", "l", "a", "s", "s", "=", "\"", "s", "t", "r", "e", "e", "t", "-", "a", "d", "d", "r", "e", "s", "s", "\"", ">">>

H3Close == <<"<", "/", "h", "3", ">">>

Quote == "\""

None == << >>

\* The characters Python treats as decimal digits (Unicode category Nd):
\* the regex class \d of a str pattern, float() and int() all accept them.
\* DecimalDigits[v + 1] is the set of the digits of value v.
DecimalDigits == <<
    {"0", "U+0660", "U+06F0", "U+07C0", "U+0966", "U+09E6", "U+0A66",
     "U+0AE6", "U+0B66", "U+0BE6", "U+0C66", "U+0CE6", "U+0D66",
     "U+0DE6", "U+0E50", "U+0ED0", "U+0F20", "U+1040", "U+1090",
     "U+17E0", "U+1810", "U+1946", "U+19D0", "U+1A80", "U+1A90",
     "U+1B50", "U+1BB0", "U+1C40", "U+1C50", "U+A620", "U+A8D0",
     "U+A900", "U+A9D0", "U+A9F0", "U+AA50", "U+ABF0", "U+FF10",
     "U+104A0", "U+10D30", "U+11066", "U+110F0", "U+11136", "U+111D0",
     "U+112F0", "U+11450", "U+114D0", "U+11650", "U+116C0", "U+11730",
     "U+118E0", "U+11950", "U+11C50", "U+11D50", "U+11DA0", "U+16A60",
     "U+16AC0", "U+16B50", "U+1D7CE", "U+1D7D8", "U+1D7E2", "U+1D7EC",
     "U+1D7F6", "U+1E140", "U+1E2F0", "U+1E950", "U+1FBF0"},
    {"1", "U+0661", "U+06F1", "U+07C1", "U+0967", "U+09E7", "U+0A67",
     "U+0AE7", "U+0B67", "U+0BE7", "U+0C67", "U+0CE7", "U+0D67",
     "U+0DE7", "U+0E51", "U+0ED1", "U+0F21", "U+1041", "U+1091",
     "U+17E1", "U+1811", "U+1947", "U+19D1", "U+1A81", "U+1A91",
     "U+1B51", "U+1BB1", "U+1C41", "U+1C51", "U+A621", "U+A8D1",
     "U+A901", "U+A9D1", "U+A9F1", "U+AA51", "U+ABF1", "U+FF11",
     "U+104A1", "U+10D31", "U+11067", "U+110F1", "U+11137", "U+111D1",
     "U+112F1", "U+11451", "U+114D1", "U+11651", "U+116C1", "U+11731",
     "U+118E1", "U+11951", "U+11C51", "U+11D51", "U+11DA1", "U+16A61",
     "U+16AC1", "U+16B51", "U+1D7CF", "U+1D7D9", "U+1D7E3", "U+1D7ED",
     "U+1D7F7", "U+1E141", "U+1E2F1", "U+1E951", "U+1FBF1"},
    {"2", "U+0662", "U+06F2", "U+07C2", "U+0968", "U+09E8", "U+0A68",
     "U+0AE8", "U+0B68", "U+0BE8", "U+0C68", "U+0CE8", "U+0D68",
     "U+0DE8", "U+0E52", "U+0ED2", "U+0F22", "U+1042", "U+1092",
     "U+17E2", "U+1812", "U+1948", "U+19D2", "U+1A82", "U+1A92",
     "U+1B52", "U+1BB2", "U+1C42", "U+1C52", "U+A622", "U+A8D2",
     "U+A902", "U+A9D2", "U+A9F2", "U+AA52", "U+ABF2", "U+FF12",
     "U+104A2", "U+10D32", "U+11068", "U+110F2", "U+11138", "U+111D2",
     "U+112F2", "U+11452", "U+114D2", "U+11652", "U+116C2", "U+11732",
     "U+118E2", "U+11952", "U+11C52", "U+11D52", "U+11DA2", "U+16A62",
     "U+16AC2", "U+16B52", "U+1D7D0", "U+1D7DA", "U+1D7E4", "U+1D7EE",
     "U+1D7F8", "U+1E142", "U+1E2F2", "U+1E952", "U+1FBF2"},
    {"3", "U+0663", "U+06F3", "U+07C3", "U+0969", "U+09E9", "U+0A69",
     "U+0AE9", "U+0B69", "U+0BE9", "U+0C69", "U+0CE9", "U+0D69",
     "U+0DE9", "U+0E53", "U+0ED3", "U+0F23", "U+1043", "U+1093",
     "U+17E3", "U+1813", "U+1949", "U+19D3", "U+1A83", "U+1A93",
     "U+1B53", "U+1BB3", "U+1C43", "U+1C53", "U+A623", "U+A8D3",
     "U+A903", "U+A9D3", "U+A9F3", "U+AA53", "U+ABF3", "U+FF13",
     "U+104A3", "U+10D33", "U+11069", "U+110F3", "U+11139", "U+111D3",
     "U+112F3", "U+11453", "U+114D3", "U+11653", "U+116C3", "U+11733",
     "U+118E3", "U+11953", "U+11C53", "U+11D53", "U+11DA3", "U+16A63",
     "U+16AC3", "U+16B53", "U+1D7D1", "U+1D7DB", "U+1D7E5", "U+1D7EF",
     "U+1D7F9", "U+1E143", "U+1E2F3", "U+1E953", "U+1FBF3"},
    {"4", "U+0664", "U+06F4", "U+07C4", "U+096A", "U+09EA", "U+0A6A",
     "U+0AEA", "U+0B6A", "U+0BEA", "U+0C6A", "U+0CEA", "U+0D6A",
     "U+0DEA", "U+0E54", "U+0ED4", "U+0F24", "U+1044", "U+1094",
     "U+17E4", "U+1814", "U+194A", "U+19D4", "U+1A84", "U+1A94",
     "U+1B54", "U+1BB4", "U+1C44", "U+1C54", "U+A624", "U+A8D4",
     "U+A904", "U+A9D4", "U+A9F4", "U+AA54", "U+ABF4", "U+FF14",
     "U+104A4", "U+10D34", "U+1106A", "U+110F4", "U+1113A", "U+111D4",
     "U+112F4", "U+11454", "U+114D4", "U+11654", "U+116C4", "U+11734",
     "U+118E4", "U+11954", "U+11C54", "U+11D54", "U+11DA4", "U+16A64",
     "U+16AC4", "U+16B54", "U+1D7D2", "U+1D7DC", "U+1D7E6", "U+1D7F0",
     "U+1D7FA", "U+1E144", "U+1E2F4", "U+1E954", "U+1FBF4"},
    {"5", "U+0665", "U+06F5", "U+07C5", "U+096B", "U+09EB", "U+0A6B",
     "U+0AEB", "U+0B6B", "U+0BEB", "U+0C6B", "U+0CEB", "U+0D6B",
     "U+0DEB", "U+0E55", "U+0ED5", "U+0F25", "U+1045", "U+1095",
     "U+17E5", "U+1815", "U+194B", "U+19D5", "U+1A85", "U+1A95",
     "U+1B55", "U+1BB5", "U+1C45", "U+1C55", "U+A625", "U+A8D5",
     "U+A905", "U+A9D5", "U+A9F5", "U+AA55", "U+ABF5", "U+FF15",
     "U+104A5", "U+10D35", "U+1106B", "U+110F5", "U+1113B", "U+111D5",
     "U+112F5", "U+11455", "U+114D5", "U+11655", "U+116C5", "U+11735",
     "U+118E5", "U+11955", "U+11C55", "U+11D55", "U+11DA5", "U+16A65",
     "U+16AC5", "U+16B55", "U+1D7D3", "U+1D7DD", "U+1D7E7", "U+1D7F1",
     "U+1D7FB", "U+1E145", "U+1E2F5", "U+1E955", "U+1FBF5"},
    {"6", "U+0666", "U+06F6", "U+07C6", "U+096C", "U+09EC", "U+0A6C",
     "U+0AEC", "U+0B6C", "U+0BEC", "U+0C6C", "U+0CEC", "U+0D6C",
     "U+0DEC", "U+0E56", "U+0ED6", "U+0F26", "U+1046", "U+1096",
     "U+17E6", "U+1816", "U+194C", "U+19D6", "U+1A86", "U+1A96",
     "U+1B56", "U+1BB6", "U+1C46", "U+1C56", "U+A626", "U+A8D6",
     "U+A906", "U+A9D6", "U+A9F6", "U+AA56", "U+ABF6", "U+FF16",
     "U+104A6", "U+10D36", "U+1106C", "U+110F6", "U+1113C", "U+111D6",
     "U+112F6", "U+11456", "U+114D6", "U+11656", "U+116C6", "U+11736",
     "U+118E6", "U+11956", "U+11C56", "U+11D56", "U+11DA6", "U+16A66",
     "U+16AC6", "U+16B56", "U+1D7D4", "U+1D7DE", "U+1D7E8", "U+1D7F2",
     "U+1D7FC", "U+1E146", "U+1E2F6", "U+1E956", "U+1FBF6"},
    {"7", "U+0667", "U+06F7", "U+07C7", "U+096D", "U+09ED", "U+0A6D",
     "U+0AED", "U+0B6D", "U+0BED", "U+0C6D", "U+0CED", "U+0D6D",
     "U+0DED", "U+0E57", "U+0ED7", "U+0F27", "U+1047", "U+1097",
     "U+17E7", "U+1817", "U+194D", "U+19D7", "U+1A87", "U+1A97",
     "U+1B57", "U+1BB7", "U+1C47", "U+1C57", "U+A627", "U+A8D7",
     "U+A907", "U+A9D7", "U+A9F7", "U+AA57", "U+ABF7", "U+FF17",
     "U+104A7", "U+10D37", "U+1106D", "U+110F7", "U+1113D", "U+111D7",
     "U+112F7", "U+11457", "U+114D7", "U+11657", "U+116C7", "U+11737",
     "U+118E7", "U+11957", "U+11C57", "U+11D57", "U+11DA7", "U+16A67",
     "U+16AC7", "U+16B57", "U+1D7D5", "U+1D7DF", "U+1D7E9", "U+1D7F3",
     "U+1D7FD", "U+1E147", "U+1E2F7", "U+1E957", "U+1FBF7"},
    {"8", "U+0668", "U+06F8", "U+07C8", "U+096E", "U+09EE", "U+0A6E",
     "U+0AEE", "U+0B6E", "U+0BEE", "U+0C6E", "U+0CEE", "U+0D6E",
     "U+0DEE", "U+0E58", "U+0ED8", "U+0F28", "U+1048", "U+1098",
     "U+17E8", "U+1818", "U+194E", "U+19D8", "U+1A88", "U+1A98",
     "U+1B58", "U+1BB8", "U+1C48", "U+1C58", "U+A628", "U+A8D8",
     "U+A908", "U+A9D8", "U+A9F8", "U+AA58", "U+ABF8", "U+FF18",
     "U+104A8", "U+10D38", "U+1106E", "U+110F8", "U+1113E", "U+111D8",
     "U+112F8", "U+11458", "U+114D8", "U+11658", "U+116C8", "U+11738",
     "U+118E8", "U+11958", "U+11C58", "U+11D58", "U+11DA8", "U+16A68",
     "U+16AC8", "U+16B58", "U+1D7D6", "U+1D7E0", "U+1D7EA", "U+1D7F4",
     "U+1D7FE", "U+1E148", "U+1E2F8", "U+1E958", "U+1FBF8"},
    {"9", "U+0669", "U+06F9", "U+07C9", "U+096F", "U+09EF", "U+0A6F",
     "U+0AEF", "U+0B6F", "U+0BEF", "U+0C6F", "U+0CEF", "U+0D6F",
     "U+0DEF", "U+0E59", "U+0ED9", "U+0F29", "U+1049", "U+1099",
     "U+17E9", "U+1819", "U+194F", "U+19D9", "U+1A89", "U+1A99",
     "U+1B59", "U+1BB9", "U+1C49", "U+1C59", "U+A629", "U+A8D9",
     "U+A909", "U+A9D9", "U+A9F9", "U+AA59", "U+ABF9", "U+FF19",
     "U+104A9", "U+10D39", "U+1106F", "U+110F9", "U+1113F", "U+111D9",
     "U+112F9", "U+11459", "U+114D9", "U+11659", "U+116C9", "U+11739",
     "U+118E9", "U+11959", "U+11C59", "U+11D59", "U+11DA9", "U+16A69",
     "U+16AC9", "U+16B59", "U+1D7D7", "U+1D7E1", "U+1D7EB", "U+1D7F5",
     "U+1D7FF", "U+1E149", "U+1E2F9", "U+1E959", "U+1FBF9"}>>

Digits == UNION {DecimalDigits[k] : k \in 1..10}

\* the blanks float() strips from both ends of a str
Whitespace ==
    {"\t", "\n", "U+000B", "\f", "\r", " ", "U+0085", "U+00A0",
     "U+1680", "U+2000", "U+2001", "U+2002", "U+2003", "U+2004",
     "U+2005", "U+2006", "U+2007", "U+2008", "U+2009", "U+200A",
     "U+2028", "U+2029", "U+202F", "U+205F", "U+3000"}

\* ------------------------------------------------------------------------
\* String primitives
\* ------------------------------------------------------------------------
\* s[p..] begins with pat
StartsWithAt(s, p, pat) ==
    /\ p + Len(pat) - 1 <= Len(s)
    /\ \A k \in 1..Len(pat) : s[p + k - 1] = pat[k]

\* str.replace(old, ""): one left-to-right pass removing every
\* non-overlapping occurrence of old
RECURSIVE str_remove_from(_, _, _)
str_remove_from(s, p, old) ==
    IF p > Len(s) THEN << >>
    ELSE IF StartsWithAt(s, p, old) THEN str_remove_from(s, p + Len(old), old)
    ELSE <<s[p]>> \o str_remove_from(s, p + 1, old)

str_remove(s, old) == str_remove_from(s, 1, old)

\* str.strip("/")
RECURSIVE lstrip_from(_, _, _)
lstrip_from(s, p, chars) ==
    IF p <= Len(s) /\ s[p] \in chars THEN lstrip_from(s, p + 1, chars) ELSE p

RECURSIVE rstrip_from(_, _, _)
rstrip_from(s, p, chars) ==
    IF p >= 1 /\ s[p] \in chars THEN rstrip_from(s, p - 1, chars) ELSE p

str_strip(s, chars) ==
    LET a == lstrip_from(s, 1, chars)
        b == rstrip_from(s, Len(s), chars)
    IN  IF a > b THEN << >> ELSE SubSeq(s, a, b)

\* index just after the run of digits that starts at p
RECURSIVE digit_run_end(_, _)
digit_run_end(s, p) ==
    IF p <= Len(s) /\ s[p] \in Digits THEN digit_run_end(s, p + 1) ELSE p

\* faulty variant: the pattern ^(\d) instead of ^(\d+)
re_match_leading_digits_first_only(path) ==
    IF Len(path) >= 1 /\ path[1] \in Digits THEN <<SubSeq(path, 1, 1)>> ELSE None

\* re.match(r"^(\d+)", path): the leading run of digits, None when empty
re_match_leading_digits(path) ==
    LET e == digit_run_end(path, 1)
    IN  IF e > 1 THEN <<SubSeq(path, 1, e - 1)>> ELSE None

\* index of the first quote at or after p, Len(s)+1 when there is none
RECURSIVE non_quote_end(_, _)
non_quote_end(s, p) ==
    IF p > Len(s) \/ s[p] = Quote THEN p ELSE non_quote_end(s, p + 1)

\* the regex  pat([^"]+)"  anchored at position p: group 1 or None
match_attr_at(s, p, pat) ==
    LET b == p + Len(pat)
        e == non_quote_end(s, b)
    IN  IF s[p] = pat[1] /\ StartsWithAt(s, p, pat) /\ e > b /\ e <= Len(s)
        THEN <<SubSeq(s, b, e - 1)>>
        ELSE None

\* re.search(pat([^"]+)", html): the leftmost match
RECURSIVE re_search_attr_from(_, _, _)
re_search_attr_from(s, p, pat) ==
    IF p > Len(s) THEN None
    ELSE LET m == match_attr_at(s, p, pat)
         IN  IF m # None THEN m ELSE re_search_attr_from(s, p + 1, pat)

re_search_attr(pat, html) == re_search_attr_from(html, 1, pat)

\* first position >= p where pat occurs, 0 when there is none
RECURSIVE find_from(_, _, _)
find_from(s, p, pat) ==
    IF p + Len(pat) - 1 > Len(s) THEN 0
    ELSE IF s[p] = pat[1] /\ StartsWithAt(s, p, pat) THEN p
    ELSE find_from(s, p + 1, pat)

\* re.search(r'<h3 class="street-address">(.*?)</h3>', html, re.S):
\* the leftmost opening tag that is followed by a closing tag; group 1 is
\* the text up to the first closing tag
re_search_h3(html) ==
    LET o == find_from(html, 1, H3Open)
        c == IF o = 0 THEN 0 ELSE find_from(html, o + Len(H3Open), H3Close)
    IN  IF o = 0 \/ c = 0 THEN None
        ELSE <<SubSeq(html, o + Len(H3Open), c - 1)>>

\* ------------------------------------------------------------------------
\* float(s) succeeds (does not raise ValueError)
\* ------------------------------------------------------------------------
Lower(c) ==
    CASE c = "I" -> "i" [] c = "N" -> "n" [] c = "F" -> "f" [] c = "T" -> "t"
      [] c = "Y" -> "y" [] c = "A" -> "a" [] OTHER -> c

\* end of   digit (["_"] digit)*   starting at p; p itself when no digit
RECURSIVE digit_part_end(_, _)
digit_part_end(s, p) ==
    IF p > Len(s) \/ s[p] \notin Digits THEN p
    ELSE IF p + 1 <= Len(s) /\ s[p + 1] \in Digits THEN digit_part_end(s, p + 1)
    ELSE IF p + 2 <= Len(s) /\ s[p + 1] = "_" /\ s[p + 2] \in Digits
         THEN digit_part_end(s, p + 2)
    ELSE p + 1

\* faulty variant: the ValueError of float() is never raised
float_ok_always(text) == TRUE

\* float(text) returns: optional sign, then inf / infinity / nan, or a
\* decimal literal with optional fraction and exponent, surrounded by
\* optional whitespace

float_ok(text) ==
    LET s  == str_strip(text, Whitespace)
        n  == Len(s)
        p0 == IF n >= 1 /\ s[1] \in {"+", "-"} THEN 2 ELSE 1
        word == [k \in 1..(n - p0 + 1) |-> Lower(s[p0 + k - 1])]
        a  == digit_part_end(s, p0)
        b  == IF a <= n /\ s[a] = "." THEN digit_part_end(s, a + 1) ELSE a
        hasDigits == a > p0 \/ b > a + 1
        q  == IF b + 1 <= n /\ s[b + 1] \in {"+", "-"} THEN b + 2 ELSE b + 1
        r  == digit_part_end(s, q)
        e  == IF b <= n /\ s[b] \in {"e", "E"} THEN (IF r > q THEN r ELSE 0) ELSE b
    IN  \/ word \in {<<"i", "n", "f">>, <<"n", "a", "n">>,
                     <<"i", "n", "f", "i", "n", "i", "t", "y">>}
        \/ hasDigits /\ e = n + 1

\* ------------------------------------------------------------------------
\* parse_store_page (src lines 38-94)
\* ------------------------------------------------------------------------
url_path(url) == str_strip(str_remove(url, BASE), {"/"})

parse_store_page(url, html) ==
    LET lat_m == re_search_attr(LatPattern, html)
        lng_m == re_search_attr(LngPattern, html)
        h3_m  == re_search_h3(html)
        path  == url_path(url)
        id_m  == re_match_leading_digits(path)
    IN  IF ~(lat_m # None /\ lng_m # None /\ h3_m # None) THEN None
        ELSE IF id_m = None THEN None
        ELSE IF ~(float_ok(lat_m[1]) /\ float_ok(lng_m[1])) THEN None
        ELSE <<[id |-> id_m[1], slug |-> path, url |-> url]>>

\* ------------------------------------------------------------------------
\* str(i) and int(s) on decimal strings
\* ------------------------------------------------------------------------
DigitChar(d) ==
    CASE d = 0 -> "0" [] d = 1 -> "1" [] d = 2 -> "2" [] d = 3 -> "3"
      [] d = 4 -> "4" [] d = 5 -> "5" [] d = 6 -> "6" [] d = 7 -> "7"
      [] d = 8 -> "8" [] d = 9 -> "9"

\* the value int() gives a decimal digit
DigitValue(c) == (CHOOSE k \in 1..10 : c \in DecimalDigits[k]) - 1

\* str(n) for n >= 0
RECURSIVE int_to_str(_)
int_to_str(n) ==
    IF n < 10 THEN <<DigitChar(n)>>
    ELSE int_to_str(n \div 10) \o <<DigitChar(n % 10)>>

\* int(s) for a string of decimal digits
RECURSIVE str_to_int(_)
str_to_int(s) ==
    IF Len(s) = 0 THEN 0
    ELSE 10 * str_to_int(SubSeq(s, 1, Len(s) - 1)) + DigitValue(s[Len(s)])

\* ------------------------------------------------------------------------
\* dict[str, Location], in insertion order: a sequence of <<key, value>>
\* ------------------------------------------------------------------------
EmptyDict == << >>

dict_keys(d) == {d[k][1] : k \in 1..Len(d)}

\* d[key] = value: a present key keeps its position and takes the new
\* value, an absent key is appended
dict_set(d, key, value) ==
    IF key \in dict_keys(d)
    THEN [k \in 1..Len(d) |-> IF d[k][1] = key THEN <<key, value>> ELSE d[k]]
    ELSE Append(d, <<key, value>>)

\* ------------------------------------------------------------------------
\* sorted(found.items(), key=lambda kv: int(kv[0]))  (src line 139)
\* ------------------------------------------------------------------------
\* faulty variant: the keys compared as strings (key=lambda kv: kv[0])
item_le_lexicographic(a, b) ==
    LET x == a[1]
        y == b[1]
        m == IF Len(x) < Len(y) THEN Len(x) ELSE Len(y)
        diff == {k \in 1..m : x[k] # y[k]}
        d == CHOOSE k \in diff : \A j \in diff : k <= j
    IN  IF diff = {} THEN Len(x) <= Len(y)
        ELSE DigitValue(x[d]) <= DigitValue(y[d])

\* order of two items under the sort key int(kv[0])
item_le(a, b) == str_to_int(a[1]) <= str_to_int(b[1])

\* stable insertion: x goes after every element that is <= x
RECURSIVE insert_stable(_, _)
insert_stable(sortedSeq, x) ==
    IF sortedSeq = << >> THEN <<x>>
    ELSE IF item_le(Head(sortedSeq), x)
         THEN <<Head(sortedSeq)>> \o insert_stable(Tail(sortedSeq), x)
         ELSE <<x>> \o sortedSeq

RECURSIVE sorted_items(_)
sorted_items(items) ==
    IF items = << >> THEN << >>
    ELSE insert_stable(sorted_items(SubSeq(items, 1, Len(items) - 1)),
                       items[Len(items)])

\* "locations": [asdict(v) for _, v in sorted(...)]
emit_locations(d) ==
    LET srt == sorted_items(d) IN [k \in 1..Len(srt) |-> srt[k][2]]

\* ------------------------------------------------------------------------
\* State
\* ------------------------------------------------------------------------
VARIABLES
    \* scrape_by_ids / main
    max_id,                       \* argument of scrape_by_ids
    stop_after_consecutive_miss,  \* argument of scrape_by_ids
    site,          \* the remote site: the ids whose page is a valid store page
    pc,            \* "start", "fetch", "check", "return", "done" in the
                   \* scan; "call", "parsed", "reparsed" in direct calls
    i,             \* loop variable of line 104 (0 before the loop)
    found,         \* the result dict, in insertion order
    misses,        \* the consecutive-miss counter
    resp,          \* outcome of the s.get of the iteration in progress
                   \* (NoResponse between iterations)
    attempts,      \* history: number of fetch attempts made
    hits,          \* history: number of iterations that yielded a record
    sleeps,        \* history: number of time.sleep(0.03) calls
    stoppedEarly,  \* history: the loop was left through the break of line 124
    printed,       \* the progress lines of line 120: <<i, len(found), misses>>
    locations,     \* data["locations"] built by main
    \* a direct call parse_store_page(arg_url, arg_html)
    arg_url, arg_html, ret_loc,
    prev_id        \* history: id of the last record returned for arg_url

parseVars == <<arg_url, arg_html, ret_loc, prev_id>>

vars == <<max_id, stop_after_consecutive_miss, site, pc, i, found, misses,
          resp, attempts, hits, sleeps, stoppedEarly, printed, locations,
          arg_url, arg_html, ret_loc, prev_id>>

\* ------------------------------------------------------------------------
\* The remote site and the outcomes of a fetch
\* ------------------------------------------------------------------------
\* `i > 300` of line 122
MinIdFloor == 300

\* `i % 100` of line 119
ProgressEvery == 100

ValidPage ==
    LatPattern \o <<"3", "3", ".", "9", Quote>> \o
    LngPattern \o <<"-", "1", "1", "8", Quote>> \o
    H3Open \o <<"L", "A">> \o H3Close

\* pages from which no record can be extracted
NoHeadingPage ==
    LatPattern \o <<"3", "3", ".", "9", Quote>> \o
    LngPattern \o <<"-", "1", "1", "8", Quote>>

BadCoordinatePage ==
    LatPattern \o <<"n", "/", "a", Quote>> \o
    LngPattern \o <<"-", "1", "1", "8", Quote>> \o
    H3Open \o H3Close

InvalidPages == {NoHeadingPage, BadCoordinatePage}

NoResponse == [kind |-> "none", status_code |-> 0, text |-> << >>]

TransportError == [kind |-> "exception", status_code |-> 0, text |-> << >>]

HttpResponse(status, text) ==
    [kind |-> "response", status_code |-> status, text |-> text]

\* what s.get(url) can produce for id n: the valid page of a store of the
\* site; for any other id a transport exception, a non-200 status (whose
\* body may even look like a store page), or a 200 whose body is empty or
\* not a store page
Responses(n) ==
    IF n \in site THEN {HttpResponse(200, ValidPage)}
    ELSE {TransportError, HttpResponse(404, ValidPage), HttpResponse(200, << >>)}
         \cup {HttpResponse(200, t) : t \in InvalidPages}

SiteCandidates == {1} \cup (MinIdFloor .. MinIdFloor + SiteSpan)

MaxIds == {0, 2, MinIdFloor + MaxExtra}

Thresholds == 0..MaxThreshold

\* ------------------------------------------------------------------------
\* scrape_by_ids (src lines 97-128)
\* ------------------------------------------------------------------------
\* f"{BASE}/{i}"
url_of(n) == BASE \o <<"/">> \o int_to_str(n)

\* faulty variant: the status code is not looked at
html_of_ignoring_status(r) ==
    IF r.kind = "exception" THEN << >> ELSE r.text

\* lines 106-110: r.text if r.status_code == 200 else "", "" on an exception
html_of(r) ==
    IF r.kind = "exception" THEN << >>
    ELSE IF r.status_code = 200 THEN r.text ELSE << >>

\* line 112
loc_of(n, r) ==
    LET html == html_of(r)
    IN  IF html # << >> THEN parse_store_page(url_of(n), html) ELSE None

\* faulty variant: a hit does not reset the counter
misses_after_no_reset(loc, m) == IF loc # None THEN m ELSE m + 1

\* lines 113-117, the counter
misses_after(loc, m) == IF loc # None THEN 0 ELSE m + 1

\* faulty variant: a hit replaces the mapping by a one-entry mapping
found_after_replacing(loc, d) ==
    IF loc # None THEN <<<<loc[1].id, loc[1]>>>> ELSE d

\* lines 113-114, the mapping
found_after(loc, d) ==
    IF loc # None THEN dict_set(d, loc[1].id, loc[1]) ELSE d

\* faulty variant: i >= 300 instead of i > 300
early_stop_at_floor(n, m, threshold) == m >= threshold /\ n >= MinIdFloor

\* line 122
early_stop(n, m, threshold) == m >= threshold /\ n > MinIdFloor

\* lines 119-120
progress_after(n) ==
    IF n % ProgressEvery = 0 THEN Append(printed, <<n, Len(found), misses>>)
                             ELSE printed

ScanIdle ==
    /\ max_id = 0
    /\ stop_after_consecutive_miss = 0
    /\ site = {}
    /\ i = 0
    /\ found = EmptyDict
    /\ misses = 0
    /\ resp = NoResponse
    /\ attempts = 0
    /\ hits = 0
    /\ sleeps = 0
    /\ stoppedEarly = FALSE
    /\ printed = << >>
    /\ locations = << >>

ParseIdle ==
    /\ arg_url = << >>
    /\ arg_html = << >>
    /\ ret_loc = None
    /\ prev_id = None

\* the call scrape_by_ids(max_id, stop_after_consecutive_miss) against a site
Init ==
    /\ max_id \in MaxIds
    /\ stop_after_consecutive_miss \in Thresholds
    /\ site \in SUBSET SiteCandidates
    /\ pc = "start"
    /\ i = 0
    /\ found = EmptyDict
    /\ misses = 0
    /\ resp = NoResponse
    /\ attempts = 0
    /\ hits = 0
    /\ sleeps = 0
    /\ stoppedEarly = FALSE
    /\ printed = << >>
    /\ locations = << >>
    /\ ParseIdle

\* lines 101-104: found = {}, misses = 0, enter the loop (or skip it)
Start ==
    /\ pc = "start"
    /\ found' = EmptyDict
    /\ misses' = 0
    /\ IF max_id >= 1 THEN i' = 1 /\ pc' = "fetch"
                      ELSE i' = i /\ pc' = "return"
    /\ UNCHANGED <<max_id, stop_after_consecutive_miss, site, resp, attempts,
                   hits, sleeps, stoppedEarly, printed, locations>>
    /\ UNCHANGED parseVars

\* lines 105-117: fetch id i, extract, fold the outcome into found / misses
Fetch ==
    /\ pc = "fetch"
    /\ \E r \in Responses(i) :
         LET loc == loc_of(i, r)
         IN  /\ resp' = r
             /\ found' = found_after(loc, found)
             /\ misses' = misses_after(loc, misses)
             /\ hits' = IF loc # None THEN hits + 1 ELSE hits
    /\ attempts' = attempts + 1
    /\ pc' = "check"
    /\ UNCHANGED <<max_id, stop_after_consecutive_miss, site, i, sleeps,
                   stoppedEarly, printed, locations>>
    /\ UNCHANGED parseVars

\* lines 119-124, the stop condition holds: break, without sleeping
EarlyStop ==
    /\ pc = "check"
    /\ early_stop(i, misses, stop_after_consecutive_miss)
    /\ printed' = progress_after(i)
    /\ stoppedEarly' = TRUE
    /\ pc' = "return"
    /\ UNCHANGED <<max_id, stop_after_consecutive_miss, site, i, found, misses,
                   resp, attempts, hits, sleeps, locations>>
    /\ UNCHANGED parseVars

\* faulty variant of Sleep: no delay after an iteration that yielded a record
Sleep_skipped_on_hit ==
    /\ pc = "check"
    /\ ~early_stop(i, misses, stop_after_consecutive_miss)
    /\ printed' = progress_after(i)
    /\ sleeps' = IF misses = 0 THEN sleeps ELSE sleeps + 1
    /\ IF i < max_id THEN i' = i + 1 /\ pc' = "fetch"
                     ELSE i' = i /\ pc' = "return"
    /\ resp' = NoResponse
    /\ UNCHANGED <<max_id, stop_after_consecutive_miss, site, found, misses,
                   attempts, hits, stoppedEarly, locations>>
    /\ UNCHANGED parseVars

\* lines 119-126 and the loop head, the stop condition does not hold:
\* time.sleep(0.03), then the next id or the end of the range; the
\* iteration is over and its response is dropped
Sleep ==
    /\ pc = "check"
    /\ ~early_stop(i, misses, stop_after_consecutive_miss)
    /\ printed' = progress_after(i)
    /\ sleeps' = sleeps + 1
    /\ IF i < max_id THEN i' = i + 1 /\ pc' = "fetch"
                     ELSE i' = i /\ pc' = "return"
    /\ resp' = NoResponse
    /\ UNCHANGED <<max_id, stop_after_consecutive_miss, site, found, misses,
                   attempts, hits, stoppedEarly, locations>>
    /\ UNCHANGED parseVars

\* line 128 and main, lines 133-139: the records sorted by int(id)
Emit ==
    /\ pc = "return"
    /\ locations' = emit_locations(found)
    /\ pc' = "done"
    /\ UNCHANGED <<max_id, stop_after_consecutive_miss, site, i, found, misses,
                   resp, attempts, hits, sleeps, stoppedEarly, printed>>
    /\ UNCHANGED parseVars

Next == Start \/ Fetch \/ EarlyStop \/ Sleep \/ Emit

Spec == Init /\ [][Next]_vars

\* ------------------------------------------------------------------------
\* parse_store_page called directly on a bounded set of urls and bodies
\* ------------------------------------------------------------------------
RECURSIVE SeqsUpTo(_, _)
SeqsUpTo(S, n) ==
    IF n = 0 THEN {<< >>}
    ELSE LET shorter == SeqsUpTo(S, n - 1)
         IN  shorter \cup {Append(t, c) : t \in shorter, c \in S}

PathChars == {"/", "1", "U+0663", "a"}

Urls == {pre \o p : pre \in {<< >>, BASE, BASE \o <<"/">>},
                    p \in SeqsUpTo(PathChars, MaxPathLen)}

CoordTexts == {<<"-", "1", ".", "5">>, <<"1", "e", "5">>, <<"1", "e">>, <<"x">>,
               <<"U+000B", "U+0663", ".", "5", "U+00A0">>}

\* the ways an attribute can appear: absent, value missing, value empty,
\* value not closed, or a closed value
AttrParts(pat) ==
    {<< >>, pat, pat \o <<Quote>>, pat \o <<"7">>}
    \cup {pat \o v \o <<Quote>> : v \in CoordTexts}

H3Parts == {<< >>, H3Open \o H3Close, H3Open \o <<"a">>, H3Close \o H3Open,
            H3Open \o <<"L", "A">> \o H3Close}

Bodies ==
    LET parts == {<<a, b, h>> : a \in AttrParts(LatPattern),
                                b \in AttrParts(LngPattern), h \in H3Parts}
    IN  {p[1] \o p[2] \o p[3] : p \in parts}
        \cup {p[3] \o p[2] \o p[1] : p \in parts}

\* bodies of a second call with the same url
OtherBodies == {ValidPage, NoHeadingPage}

InitParse ==
    /\ ScanIdle
    /\ pc = "call"
    /\ arg_url \in Urls
    /\ arg_html \in Bodies
    /\ ret_loc = None
    /\ prev_id = None

\* parse_store_page(arg_url, arg_html)
ParseCall ==
    /\ pc = "call"
    /\ ret_loc' = parse_store_page(arg_url, arg_html)
    /\ pc' = "parsed"
    /\ UNCHANGED <<arg_url, arg_html, prev_id>>
    /\ UNCHANGED <<max_id, stop_after_consecutive_miss, site, i, found, misses,
                   resp, attempts, hits, sleeps, stoppedEarly, printed,
                   locations>>

\* a further call with the same url and another body
ParseOther ==
    /\ pc = "parsed"
    /\ ret_loc # None
    /\ \E body \in OtherBodies :
         /\ arg_html' = body
         /\ ret_loc' = parse_store_page(arg_url, body)
    /\ prev_id' = <<ret_loc[1].id>>
    /\ pc' = "reparsed"
    /\ UNCHANGED arg_url
    /\ UNCHANGED <<max_id, stop_after_consecutive_miss, site, i, found, misses,
                   resp, attempts, hits, sleeps, stoppedEarly, printed,
                   locations>>

NextParse == ParseCall \/ ParseOther

SpecParse == InitParse /\ [][NextParse]_vars

\* ------------------------------------------------------------------------
\* main's ordering applied to mappings in every insertion order
\* ------------------------------------------------------------------------
SortIds == {1, 2, 10, 12, 21}

\* the record parse_store_page returns for the store page of id n
LocationOf(n) ==
    [id |-> int_to_str(n), slug |-> int_to_str(n), url |-> url_of(n)]

RECURSIVE DistinctSeqs(_, _)
DistinctSeqs(S, n) ==
    IF n = 0 THEN {<< >>}
    ELSE LET shorter == DistinctSeqs(S, n - 1)
         IN  shorter \cup
             UNION {{Append(t, x) : x \in {y \in S : \A k \in 1..Len(t) : t[k] # y}} :
                    t \in shorter}

SortInputs ==
    {[k \in 1..Len(ids) |-> <<int_to_str(ids[k]), LocationOf(ids[k])>>] :
        ids \in DistinctSeqs(SortIds, MaxItems)}

InitSort ==
    /\ max_id = 0
    /\ stop_after_consecutive_miss = 0
    /\ site = {}
    /\ pc = "return"
    /\ i = 0
    /\ found \in SortInputs
    /\ misses = 0
    /\ resp = NoResponse
    /\ attempts = 0
    /\ hits = 0
    /\ sleeps = 0
    /\ stoppedEarly = FALSE
    /\ printed = << >>
    /\ locations = << >>
    /\ ParseIdle

NextSort == Emit

SpecSort == InitSort /\ [][NextSort]_vars

\* ------------------------------------------------------------------------
\* Vocabulary of the properties
\* ------------------------------------------------------------------------
Finished == pc \in {"return", "done"}

\* the early-stop condition as the specification words it
StopConditionHolds ==
    i > MinIdFloor /\ misses >= stop_after_consecutive_miss

\* numeric value of the largest key of found, 0 for the empty mapping
LastHitId ==
    LET ids == {str_to_int(k) : k \in dict_keys(found)} \cup {0}
    IN  CHOOSE n \in ids : \A other \in ids : other <= n

\* a response that is a per-id failure: transport exception, status other
\* than 200, empty body, or a body that is not a store page
FailureResponse(r) ==
    \/ r.kind = "exception"
    \/ r.kind = "response" /\ r.status_code # 200
    \/ r.kind = "response" /\ r.text = << >>
    \/ r.kind = "response" /\ r.text \in InvalidPages

\* the regex  pat([^"]+)"  matches s from position p up to the quote at e
AttrMatch(s, pat, p, e) ==
    /\ StartsWithAt(s, p, pat)
    /\ e > p + Len(pat)
    /\ e <= Len(s)
    /\ s[e] = Quote
    /\ \A k \in (p + Len(pat))..(e - 1) : s[k] # Quote

\* s contains a marker pat="value" (value not empty)
HasMarker(s, pat) ==
    \E p \in 1..Len(s) : StartsWithAt(s, p, pat) /\
        \E e \in p..Len(s) : AttrMatch(s, pat, p, e)

\* the coordinate texts of the model that Python's float() accepts
FloatTexts == {<<"-", "1", ".", "5">>, <<"1", "e", "5">>,
               <<"U+000B", "U+0663", ".", "5", "U+00A0">>,
               <<"3", "3", ".", "9">>, <<"-", "1", "1", "8">>}

\* the value of the first marker pat="value" of s is a float literal
MarkerParses(s, pat) ==
    \E p \in 1..Len(s) : StartsWithAt(s, p, pat) /\
        \E e \in p..Len(s) :
            /\ AttrMatch(s, pat, p, e)
            /\ \A p2 \in 1..(p - 1) : ~(StartsWithAt(s, p2, pat) /\
                   \E e2 \in p2..Len(s) : AttrMatch(s, pat, p2, e2))
            /\ SubSeq(s, p + Len(pat), e - 1) \in FloatTexts

\* s contains a street-address heading: an opening tag and, after it, a
\* closing tag
HasHeading(s) ==
    \E o \in 1..Len(s) : StartsWithAt(s, o, H3Open) /\
        \E c \in (o + Len(H3Open))..Len(s) : StartsWithAt(s, c, H3Close)

BodyIsStorePage(s) ==
    /\ HasMarker(s, LatPattern) /\ HasMarker(s, LngPattern) /\ HasHeading(s)
    /\ MarkerParses(s, LatPattern) /\ MarkerParses(s, LngPattern)

PathBeginsWithDigit(url) ==
    LET path == url_path(url) IN Len(path) >= 1 /\ path[1] \in Digits

Parsed == pc \in {"parsed", "reparsed"}

\* ------------------------------------------------------------------------
\* Properties
\* ------------------------------------------------------------------------
\* C1: the k-th probe is id k; the scan goes from id i to id i+1 exactly
\* when the stop condition (i above the floor and the miss counter at the
\* threshold) does not hold at i and i < max_id; it ends at i only when the
\* stop condition holds at i or i = max_id; nothing is probed afterwards.
C1_ScanEndsOnlyAtThresholdOrMaxId ==
    [][ /\ (attempts' # attempts => attempts' = attempts + 1 /\ i = attempts')
        /\ (pc = "check" /\ pc' = "fetch" =>
               i' = i + 1 /\ i < max_id /\ ~StopConditionHolds)
        /\ (pc = "check" /\ pc' = "return" =>
               StopConditionHolds \/ i = max_id)
        /\ (pc = "check" /\ StopConditionHolds =>
               pc' = "return" /\ i' = i /\ attempts' = attempts)
        /\ (pc = "start" /\ pc' = "return" => max_id < 1)
        /\ (Finished => attempts' = attempts /\ pc' \in {"return", "done"})
      ]_vars

C1_Witness ==
    /\ pc = "done" /\ stoppedEarly
    /\ i > MinIdFloor + 1 /\ i < max_id /\ attempts = i /\ hits >= 1

\* C2 as stated: when the scan is over, every id of 1..max_id whose page
\* is valid is a key of the returned mapping.
C2_Original_NoFalseNegatives ==
    pc = "done" =>
        \A n \in site : n <= max_id => int_to_str(n) \in dict_keys(found)

\* C2 amended: every id whose page is valid and that the scan has probed
\* (every valid id up to the id at which the scan stops) is a key of the
\* mapping, whatever invalid or missing pages were met.
C2_NoFalseNegativesAmongProbed ==
    /\ \A n \in site : n <= attempts => int_to_str(n) \in dict_keys(found)
    /\ Finished => attempts = (IF max_id >= 1 THEN i ELSE 0)

C2_Witness ==
    /\ pc = "done" /\ stoppedEarly /\ hits >= 2
    /\ \E n \in site : n > i /\ n <= max_id

\* C3: a fetch that ends in a transport exception, a status other than
\* 200, an empty body or a body that is not a store page inserts nothing,
\* adds one to the miss counter and leaves the scan running: the next id
\* is fetched unless the stop condition holds or max_id is reached.
C3_FailuresAreMisses ==
    [][ /\ (pc = "fetch" /\ pc' # "fetch" /\ FailureResponse(resp') =>
               /\ found' = found
               /\ misses' = misses + 1
               /\ hits' = hits
               /\ pc' = "check")
        /\ (pc = "check" /\ pc' # "check" /\ ~StopConditionHolds /\ i < max_id =>
               pc' = "fetch" /\ i' = i + 1)
      ]_vars

C3_Witness ==
    /\ pc = "check" /\ resp.kind = "exception"
    /\ misses >= 2 /\ hits >= 1 /\ i < max_id /\ ~StopConditionHolds

\* C4: the miss counter is 0 at the start, becomes 0 in an iteration that
\* yields a record, grows by one in an iteration that yields none, and
\* changes nowhere else; it equals the number of ids probed since the last
\* hit (since id 1 when there was none).
C4_MissCounter ==
    /\ [](misses = attempts - LastHitId)
    /\ [][ /\ (misses' # misses => attempts' = attempts + 1)
           /\ (attempts' = attempts + 1 =>
                  IF hits' = hits + 1 THEN misses' = 0
                                      ELSE misses' = misses + 1 /\ hits' = hits)
         ]_vars

C4_Witness ==
    pc = "check" /\ misses = 2 /\ hits >= 2 /\ LastHitId > MinIdFloor

\* C5 as stated, with F the floor and T >= 1 the threshold: misses at
\* F+1..F+T after a hit at F halt the scan at F+T; the scan never halts
\* early at an id <= F; misses at ids <= F do not count toward the stop,
\* that is, the T misses that trigger a stop all lie above F.
C5_Original_FloorMissesDoNotCount ==
    /\ (Finished /\ stop_after_consecutive_miss >= 1
          /\ MinIdFloor \in site
          /\ max_id >= MinIdFloor + stop_after_consecutive_miss
          /\ (MinIdFloor + 1 .. MinIdFloor + stop_after_consecutive_miss) \cap site = {}
        => stoppedEarly /\ i = MinIdFloor + stop_after_consecutive_miss)
    /\ (stoppedEarly => i > MinIdFloor)
    /\ (stoppedEarly => i - stop_after_consecutive_miss >= MinIdFloor)

\* C5 amended: misses at F+1..F+T after a hit at F halt the scan at F+T;
\* the scan never halts early at an id <= F; misses at ids <= F cannot
\* trigger the stop at an id <= F but stay in the counter: a run of T
\* misses that ends at F+1 halts the scan at F+1.
C5_EarlyStopBoundary ==
    /\ (Finished /\ stop_after_consecutive_miss >= 1
          /\ MinIdFloor \in site
          /\ max_id >= MinIdFloor + stop_after_consecutive_miss
          /\ (MinIdFloor + 1 .. MinIdFloor + stop_after_consecutive_miss) \cap site = {}
        => stoppedEarly /\ i = MinIdFloor + stop_after_consecutive_miss)
    /\ (stoppedEarly => i > MinIdFloor)
    /\ (Finished /\ stop_after_consecutive_miss >= 1
          /\ max_id > MinIdFloor
          /\ (MinIdFloor + 2 - stop_after_consecutive_miss .. MinIdFloor + 1) \cap site = {}
        => stoppedEarly /\ i = MinIdFloor + 1)

C5_Witness ==
    /\ pc = "done" /\ stoppedEarly
    /\ stop_after_consecutive_miss >= 2
    /\ MinIdFloor \in site
    /\ i = MinIdFloor + stop_after_consecutive_miss
    /\ i < max_id

\* C6: the mapping is empty at the start of the scan; an iteration leaves
\* it unchanged or appends one entry whose key is new and is the decimal
\* string of i, every earlier entry staying as it was; the number of keys
\* is the number of hits.
C6_ResultOnlyGrows ==
    /\ [](pc = "start" => found = EmptyDict)
    /\ [](Len(found) = hits /\ Cardinality(dict_keys(found)) = hits)
    /\ [][ \/ found' = found
           \/ /\ pc = "fetch"
              /\ Len(found') = Len(found) + 1
              /\ SubSeq(found', 1, Len(found)) = found
              /\ found'[Len(found')][1] = int_to_str(i)
              /\ found'[Len(found')][1] \notin dict_keys(found)
         ]_vars

C6_Witness ==
    pc = "done" /\ Len(found) >= 3 /\ misses >= 1

\* C7 as stated: a record is returned if and only if the body has a
\* latitude marker, a longitude marker and a street-address heading and
\* both coordinate values are float literals, for every url.
C7_Original_RecordIffBody ==
    Parsed => (ret_loc # None <=> BodyIsStorePage(arg_html))

\* C7 amended: a record is returned if and only if the body has the two
\* markers and the heading, both coordinate values are float literals, and
\* the URL path begins with a digit; otherwise None is returned; a record
\* has all its fields.
C7_RecordIffBodyAndUrl ==
    Parsed =>
        /\ (ret_loc # None <=>
               BodyIsStorePage(arg_html) /\ PathBeginsWithDigit(arg_url))
        /\ (ret_loc # None =>
               /\ Len(ret_loc) = 1
               /\ DOMAIN ret_loc[1] = {"id", "slug", "url"}
               /\ ret_loc[1].id # << >>
               /\ ret_loc[1].url = arg_url)

C7_Witness ==
    /\ pc = "parsed" /\ ret_loc # None
    /\ StartsWithAt(arg_html, 1, H3Open)

\* C8: the id of a returned record is the leading run of digits of the URL
\* path (not empty, all digits, not followed by a digit) and is the same
\* for every body that yields a record for that url.
C8_IdFromUrlPath ==
    ret_loc # None =>
        LET id   == ret_loc[1].id
            path == ret_loc[1].slug
        IN  /\ path = url_path(arg_url)
            /\ Len(id) >= 1 /\ Len(id) <= Len(path)
            /\ \A k \in 1..Len(id) : id[k] = path[k] /\ id[k] \in Digits
            /\ (Len(id) < Len(path) => path[Len(id) + 1] \notin Digits)
            /\ (prev_id # None => prev_id[1] = id)

C8_Witness ==
    /\ pc = "reparsed" /\ ret_loc # None /\ prev_id # None
    /\ Len(ret_loc[1].id) = 2

\* C9 as stated: every fetch attempt, the one on which the scan stops
\* included, is followed by the delay before the next fetch or the return.
C9_Original_DelayAfterEveryAttempt ==
    /\ (pc = "fetch" => sleeps = attempts)
    /\ (Finished => sleeps = attempts)

\* C9 amended: every fetch attempt is followed by the delay, whatever its
\* outcome, except the attempt on which the scan stops early: the break
\* returns without the delay. The attempt on id max_id is followed by it.
C9_DelayAfterEveryAttemptButEarlyStop ==
    /\ (pc = "fetch" => sleeps = attempts)
    /\ (Finished => sleeps = attempts - (IF stoppedEarly THEN 1 ELSE 0))

C9_Witness ==
    pc = "done" /\ stoppedEarly /\ hits >= 1 /\ sleeps = attempts - 1

\* C10: main emits every record of the mapping exactly once, in strictly
\* ascending order of the numeric value of the id, whatever the insertion
\* order.
C10_EmittedInNumericOrder ==
    pc = "done" =>
        /\ Len(locations) = Len(found)
        /\ \A k \in 1..Len(found) :
               Cardinality({j \in 1..Len(locations) : locations[j] = found[k][2]}) = 1
        /\ \A j, k \in 1..Len(locations) :
               j < k => str_to_int(locations[j].id) < str_to_int(locations[k].id)

C10_Witness ==
    /\ pc = "done"
    /\ [k \in 1..Len(found) |-> found[k][1]] = <<<<"2">>, <<"1", "0">>, <<"1">>>>
    /\ [k \in 1..Len(locations) |-> locations[k].id] = <<<<"1">>, <<"2">>, <<"1", "0">>>>

====
